---- MODULE Spec2Model ----
(***************************************************************************)
(* python-nmcli (src/nmcli/__init__.py): the action dispatcher built by    *)
(* _NMCommand.gen_action and the query engine _nmcli, as a state machine.  *)
(*                                                                         *)
(* A Python str is a sequence of one-character strings, so that lower(),   *)
(* split(), join() and the % formatting are computed character by          *)
(* character.  The names of the nmcli output fields (the entries of the    *)
(* NMCLI_FIELDS lists) are the only strings the program never looks into;  *)
(* they are kept as TLA+ strings.                                          *)
(***************************************************************************)
EXTENDS Integers, Sequences, FiniteSets, TLC

VARIABLES
    pc,           \* "idle": no call in progress; "shell": the call is inside
                  \* _shell (line 109); "done": the call has returned or raised
    call,         \* the arguments of the last call made by the caller
    cmd,          \* the command string run_action hands to _nmcli (line 202)
    ns,           \* _nmcli's local list ns, popped in place by _build_fields
    fields,       \* _nmcli's local fields after line 102
    multiline,    \* _nmcli's local multiline after line 102
    argv,         \* the argument vector given to _shell (lines 104-107)
    invocations,  \* number of times the last call has entered _shell
    shell,        \* what _shell returned to the last call
    result        \* what the last call returned or raised

vars == <<pc, call, cmd, ns, fields, multiline, argv, invocations, shell, result>>

---------------------------------------------------------------------------
(* Bounds of the explored inputs. *)

\* longest list of positional tokens a caller passes
MaxArgs == 2
\* most keyword arguments a caller passes
MaxKw == 2
\* most lines of standard output the external tool prints
MaxLines == 2

---------------------------------------------------------------------------
(* Python values.  Every value is a record of the same shape: t is the     *)
(* type, and s, n, b, items hold a str, an int, a bool, a list.            *)

None == [t |-> "none", s |-> <<>>, n |-> 0, b |-> FALSE, items |-> <<>>]

PyStr(chars) == [t |-> "str", s |-> chars, n |-> 0, b |-> FALSE, items |-> <<>>]

PyInt(i) == [t |-> "int", s |-> <<>>, n |-> i, b |-> FALSE, items |-> <<>>]

PyBool(v) == [t |-> "bool", s |-> <<>>, n |-> 0, b |-> v, items |-> <<>>]

PyList(xs) == [t |-> "list", s |-> <<>>, n |-> 0, b |-> FALSE, items |-> xs]

Range(f) == {f[i] : i \in DOMAIN f}

---------------------------------------------------------------------------
(* The str methods and conversions the program uses. *)

UpperCase == <<"A","B","C","D","E","F","G","H","I","J","K","L","M",
               "N","O","P","Q","R","S","T","U","V","W","X","Y","Z">>

LowerCase == <<"a","b","c","d","e","f","g","h","i","j","k","l","m",
               "n","o","p","q","r","s","t","u","v","w","x","y","z">>

\* the lower-case letter of each upper-case letter
LowerOf == [c \in Range(UpperCase) |->
               LowerCase[CHOOSE i \in DOMAIN UpperCase : UpperCase[i] = c]]

\* str.lower() on one character
lower_char(c) == IF c \in DOMAIN LowerOf THEN LowerOf[c] ELSE c

\* str.lower()
lower(chars) == [i \in DOMAIN chars |-> lower_char(chars[i])]

Digits == <<"0","1","2","3","4","5","6","7","8","9">>

RECURSIVE str_nat(_)
\* str(i) for an int i >= 0
str_nat(i) ==
    IF i < 10 THEN <<Digits[i + 1]>>
    ELSE str_nat(i \div 10) \o <<Digits[(i % 10) + 1]>>

\* str(i) for an int
str_int(i) == IF i < 0 THEN <<"-">> \o str_nat(0 - i) ELSE str_nat(i)

\* str(b) for a bool
str_bool(v) == IF v THEN <<"T","r","u","e">> ELSE <<"F","a","l","s","e">>

\* "%s" % v for a str, bool, int or None
format_s(v) ==
    IF v.t = "str" THEN v.s
    ELSE IF v.t = "bool" THEN str_bool(v.b)
    ELSE IF v.t = "int" THEN str_int(v.n)
    ELSE <<"N","o","n","e">>

RECURSIVE join(_, _)
\* sep.join(strs) for a list of str
join(sep, strs) ==
    IF strs = <<>> THEN <<>>
    ELSE IF Len(strs) = 1 THEN strs[1]
    ELSE strs[1] \o sep \o join(sep, Tail(strs))

RECURSIVE split_from(_, _, _, _)
\* str.split(sep) continued: cur is the piece being read, done the pieces read
split_from(chars, sep, cur, done) ==
    IF chars = <<>> THEN Append(done, cur)
    ELSE IF Head(chars) = sep
         THEN split_from(Tail(chars), sep, <<>>, Append(done, cur))
         ELSE split_from(Tail(chars), sep, Append(cur, Head(chars)), done)

\* str.split(sep), sep one character: always at least one piece
split(chars, sep) == split_from(chars, sep, <<>>, <<>>)

\* str.split(sep, 1): at most one split, at the first sep
split_once(chars, sep) ==
    IF \E i \in DOMAIN chars : chars[i] = sep
    THEN LET i == CHOOSE j \in DOMAIN chars :
                      /\ chars[j] = sep
                      /\ \A k \in 1..(j - 1) : chars[k] # sep
         IN  <<SubSeq(chars, 1, i - 1), SubSeq(chars, i + 1, Len(chars))>>
    ELSE <<chars>>

\* shlex.split(command) for a command without quotes, backslashes or
\* whitespace other than the space: the non-empty pieces between spaces
shlex_split(chars) == SelectSeq(split(chars, " "), LAMBDA w : w # <<>>)

---------------------------------------------------------------------------
(* The field table and the multi-line keys (lines 57-70). *)

NMCLI_FIELDS ==
    ( <<"n","m">> :> <<"RUNNING", "STATE", "WIFI-HARDWARE", "WIFI",
                 "WWAN-HARDWARE", "WWAN">> ) @@
    ( <<"d","e","v">> :> <<"DEVICE", "TYPE", "STATE">> ) @@
    ( <<"c","o","n">> :> <<"NAME", "UUID", "TYPE", "TIMESTAMP-REAL">> ) @@
    ( <<"c","o","n"," ","s","t","a","t","u","s">> :> <<"NAME", "UUID", "DEVICES", "DEFAULT", "VPN",
                         "MASTER-PATH">> ) @@
    ( <<"c","o","n"," ","l","i","s","t"," ","i","d">> :> <<"connection", "802-3-ethernet", "802-1x",
                          "802-11-wireless", "802-11-wireless-security",
                          "ipv4", "ipv6", "serial", "ppp", "pppoe", "gsm",
                          "cdma", "bluetooth", "802-11-olpc-mesh", "vpn",
                          "infiniband", "bond", "vlan">> )

NMCLI_MULTILINE_KEYS == { <<"c","o","n"," ","l","i","s","t"," ","i","d">> }

---------------------------------------------------------------------------
(* The action vocabulary (lines 209-235): per object, the list of          *)
(* (command, possibleargs) pairs given to _NMCommand.                      *)

Action(command, possibleargs) ==
    [command |-> command, possibleargs |-> possibleargs]

nm ==
    << Action(<<"s","t","a","t","u","s">>, None),
       Action(<<"e","n","a","b","l","e">>, PyList(<<PyBool(TRUE), PyBool(FALSE)>>)),
       Action(<<"s","l","e","e","p">>, PyList(<<PyBool(TRUE), PyBool(FALSE)>>)),
       Action(<<"w","i","f","i">>, PyList(<<PyStr(<<"o","n">>), PyStr(<<"o","f","f">>)>>)),
       Action(<<"w","w","a","n">>, PyList(<<PyStr(<<"o","n">>), PyStr(<<"o","f","f">>)>>)) >>

con ==
    << Action(<<"l","i","s","t">>, PyList(<<None, PyStr(<<"i","d">>), PyStr(<<"u","u","i","d">>)>>)),
       Action(<<"s","t","a","t","u","s">>, PyList(<<None, PyStr(<<"i","d">>), PyStr(<<"u","u","i","d">>),
                                  PyStr(<<"p","a","t","h">>)>>)),
       Action(<<"u","p">>, PyList(<<PyStr(<<"i","d">>), PyStr(<<"u","u","i","d">>), PyStr(<<"i","f","a","c","e">>),
                              PyStr(<<"a","p">>)>>)),
       Action(<<"d","o","w","n">>, PyList(<<PyStr(<<"i","d">>), PyStr(<<"u","u","i","d">>)>>)),
       Action(<<"d","e","l","e","t","e">>, PyList(<<PyStr(<<"i","d">>), PyStr(<<"u","u","i","d">>)>>)) >>

dev ==
    << Action(<<"s","t","a","t","u","s">>, None),
       Action(<<"l","i","s","t">>, PyList(<<None, PyStr(<<"i","f","a","c","e">>)>>)),
       Action(<<"d","i","s","c","o","n","n","e","c","t">>, PyList(<<PyStr(<<"i","f","a","c","e">>)>>)),
       Action(<<"w","i","f","i">>, PyList(<<PyStr(<<"l","i","s","t">>)>>)) >>

\* the three _NMCommand objects of the module, by cmdname
Objects == ( <<"n","m">> :> nm ) @@ ( <<"c","o","n">> :> con ) @@ ( <<"d","e","v">> :> dev )

---------------------------------------------------------------------------
(* gen_action (lines 141-205). *)

\* sanitize_arg without the lower() of line 151
sanitize_arg_keeps_case(arg) ==
    IF arg.t = "bool" THEN PyStr(lower(str_bool(arg.b)))
    ELSE IF arg.t = "int" THEN PyStr(str_int(arg.n))
    ELSE arg

\* sanitize_arg (lines 143-153)
sanitize_arg(arg) ==
    IF arg.t = "bool" THEN PyStr(lower(str_bool(arg.b)))
    ELSE IF arg.t = "int" THEN PyStr(str_int(arg.n))
    ELSE IF arg.t # "none" THEN PyStr(lower(arg.s))
    ELSE arg

\* sanitize_args (lines 142-161)
sanitize_args(args) ==
    IF args.t = "list"
    THEN PyList([i \in DOMAIN args.items |-> sanitize_arg(args.items[i])])
    ELSE sanitize_arg(args)

\* usableargs (line 163)
usableargs(possibleargs) == sanitize_args(possibleargs)

\* A raised exception: its type, the function that raised it, its payload.
Raise(type, where, detail) ==
    [err |-> type, where |-> where, detail |-> detail]

NoError == Raise("", "", <<>>)

\* verify_arg without the membership test of line 167
verify_arg_unchecked(command, possibleargs, arg) ==
    [exc |-> Raise("", "", <<>>), val |-> sanitize_args(arg)]

\* verify_arg (lines 165-171): the sanitized arg, or the exception raised.
\* `arg not in usableargs` raises TypeError when usableargs is None.
verify_arg(command, possibleargs, arg) ==
    LET a == sanitize_args(arg)
        usable == usableargs(possibleargs)
    IN  IF usable.t # "list"
        THEN [exc |-> Raise("TypeError", "verify_arg", <<a>>), val |-> a]
        ELSE IF a \notin Range(usable.items)
        THEN [exc |-> Raise("Exception", "verify_arg",
                            <<a, command, possibleargs>>), val |-> a]
        ELSE [exc |-> NoError, val |-> a]

RECURSIVE verify_args(_, _, _)
\* verify_args (lines 173-174): the verified list, or the first exception
verify_args(command, possibleargs, args) ==
    IF args = <<>> THEN [exc |-> NoError, vals |-> <<>>]
    ELSE LET first == verify_arg(command, possibleargs, Head(args))
         IN  IF first.exc.err # "" THEN [exc |-> first.exc, vals |-> <<>>]
             ELSE LET rest == verify_args(command, possibleargs, Tail(args))
                  IN  IF rest.exc.err # "" THEN rest
                      ELSE [exc |-> NoError,
                            vals |-> <<first.val>> \o rest.vals]

\* kwargs is the sequence of (name, value) pairs in the dict's iteration
\* order; `arg in kwargs` (line 193) compares arg with the names as written
in_kwargs(arg, kwargs) ==
    /\ arg.t = "str"
    /\ \E i \in DOMAIN kwargs : kwargs[i].name = arg.s

\* kwargs[arg] (line 198)
kwargs_get(arg, kwargs) ==
    kwargs[CHOOSE i \in DOMAIN kwargs : kwargs[i].name = arg.s].value

\* one entry of opts (lines 193-198)
option(arg, kwargs) ==
    IF ~in_kwargs(arg, kwargs) THEN arg
    ELSE PyStr(format_s(arg) \o <<" ">>
               \o format_s(sanitize_args(kwargs_get(arg, kwargs))))

\* run_action up to its call of _nmcli (lines 176-200): the command string
\* cmd, or the exception raised.  ' '.join(opts) raises TypeError when an
\* entry of opts is None.
run_action(command, possibleargs, args, kwargs) ==
    LET args0 == IF args.t = "none" THEN <<>>
                 ELSE IF args.t # "list" THEN <<args>>
                 ELSE args.items
        args1 == IF kwargs # <<>>
                 THEN args0 \o [i \in DOMAIN kwargs |-> PyStr(kwargs[i].name)]
                 ELSE args0
        verified == verify_args(command, possibleargs, args1)
        opts == [i \in DOMAIN verified.vals |-> option(verified.vals[i], kwargs)]
    IN  IF verified.exc.err # "" THEN [exc |-> verified.exc, cmd |-> None]
        ELSE IF verified.vals = <<>>
        THEN [exc |-> NoError, cmd |-> PyStr(command)]
        ELSE IF \E i \in DOMAIN opts : opts[i].t # "str"
        THEN [exc |-> Raise("TypeError", "run_action", opts), cmd |-> None]
        ELSE [exc |-> NoError,
              cmd |-> PyStr(command \o <<" ">>
                            \o join(<<" ">>, [i \in DOMAIN opts |-> opts[i].s]))]

---------------------------------------------------------------------------
(* _nmcli (lines 86-132). *)

RECURSIVE _build_fields_default(_, _, _)
\* _build_fields falling back to the caller's fields when no key is left
_build_fields_default(l_ns, l_fields, l_multiline) ==
    IF \E i \in DOMAIN l_ns : l_ns[i].t # "str"
    THEN [exc |-> Raise("TypeError", "_build_fields", l_ns),
          ns |-> l_ns, fields |-> <<>>, multiline |-> l_multiline]
    ELSE LET key == join(<<" ">>, [i \in DOMAIN l_ns |-> l_ns[i].s])
         IN  IF key \in DOMAIN NMCLI_FIELDS
             THEN [exc |-> NoError, ns |-> l_ns, fields |-> NMCLI_FIELDS[key],
                   multiline |-> IF NMCLI_FIELDS[key] \in NMCLI_MULTILINE_KEYS
                                 THEN TRUE ELSE l_multiline]
             ELSE IF l_ns = <<>>
             THEN [exc |-> NoError, ns |-> l_ns,
                   fields |-> [i \in DOMAIN l_fields.items |-> "F"],
                   multiline |-> l_multiline]
             ELSE _build_fields_default(SubSeq(l_ns, 1, Len(l_ns) - 1),
                                        l_fields, l_multiline)

RECURSIVE _build_fields(_, _, _)
\* _build_fields (lines 92-100).  ' '.join(ns) raises TypeError when an
\* entry of ns is None; a KeyError pops ns and retries; ns.pop() on the
\* empty list raises IndexError.  The multi-line test of line 95 compares
\* the field list just looked up, not the key, with the multi-line keys.
_build_fields(l_ns, l_fields, l_multiline) ==
    IF \E i \in DOMAIN l_ns : l_ns[i].t # "str"
    THEN [exc |-> Raise("TypeError", "_build_fields", l_ns),
          ns |-> l_ns, fields |-> <<>>, multiline |-> l_multiline]
    ELSE LET key == join(<<" ">>, [i \in DOMAIN l_ns |-> l_ns[i].s])
         IN  IF key \in DOMAIN NMCLI_FIELDS
             THEN [exc |-> NoError, ns |-> l_ns, fields |-> NMCLI_FIELDS[key],
                   multiline |-> IF NMCLI_FIELDS[key] \in NMCLI_MULTILINE_KEYS
                                 THEN TRUE ELSE l_multiline]
             ELSE IF l_ns = <<>>
             THEN [exc |-> Raise("IndexError", "_build_fields", l_ns),
                   ns |-> l_ns, fields |-> <<>>, multiline |-> l_multiline]
             ELSE _build_fields(SubSeq(l_ns, 1, Len(l_ns) - 1),
                                l_fields, l_multiline)

\* ns as first built (lines 89-90): fields is None or a list of str
initial_ns(obj, command, l_fields) ==
    <<PyStr(obj), command>> \o (IF l_fields.t = "list" THEN l_fields.items ELSE <<>>)

RECURSIVE join_fields(_)
\* ",".join(fields) (line 104), the field names kept whole
join_fields(l_fields) ==
    IF l_fields = <<>> THEN <<>>
    ELSE IF Len(l_fields) = 1 THEN <<l_fields[1]>>
    ELSE <<l_fields[1], ",">> \o join_fields(Tail(l_fields))

\* args (lines 104-107)
build_args(obj, command, l_fields) ==
    [prog |-> <<"nmcli", "--terse", "--fields">>,
     fields |-> join_fields(l_fields),
     obj |-> obj,
     command |-> IF command.t = "str" /\ command.s # <<>>
                 THEN shlex_split(command.s) ELSE <<>>]

\* dict(zip(fields, values)) (line 127): a later equal key replaces an earlier
zip_dict(l_fields, values) ==
    LET n == IF Len(l_fields) < Len(values) THEN Len(l_fields) ELSE Len(values)
    IN  [k \in {l_fields[i] : i \in 1..n} |->
            values[CHOOSE i \in 1..n :
                      /\ l_fields[i] = k
                      /\ \A j \in (i + 1)..n : l_fields[j] # k]]

\* line 126 with >= for ==
columns_at_least(values, l_fields) == Len(values) >= Len(l_fields)

\* line 126
columns_match(values, l_fields) == Len(values) = Len(l_fields)

RECURSIVE single_rows(_, _)
\* the single-line loop (lines 124-128) over the lines of stdout
single_rows(lines, l_fields) ==
    IF lines = <<>> THEN <<>>
    ELSE LET values == split(Head(lines), ":")
         IN  (IF columns_match(values, l_fields)
              THEN <<zip_dict(l_fields, values)>> ELSE <<>>)
             \o single_rows(Tail(lines), l_fields)

\* the empty dict
EmptyRow == [k \in {} |-> <<>>]

\* row[prop] = value (line 121)
set_item(row, prop, value) ==
    [k \in (DOMAIN row) \cup {prop} |-> IF k = prop THEN value ELSE row[k]]

RECURSIVE multi_row(_, _)
\* the multi-line loop (lines 116-121).  `field, prop = multikey.split('.')`
\* raises ValueError unless multikey holds exactly one '.'.
multi_row(lines, row) ==
    IF lines = <<>> THEN [exc |-> NoError, row |-> row]
    ELSE LET values == split_once(Head(lines), ":")
         IN  IF Len(values) = 2
             THEN LET parts == split(values[1], ".")
                  IN  IF Len(parts) # 2
                      THEN [exc |-> Raise("ValueError", "_nmcli", parts),
                            row |-> row]
                      ELSE multi_row(Tail(lines),
                                     set_item(row, parts[2], values[2]))
             ELSE multi_row(Tail(lines), row)

\* line 112 with >= for ==
succeeded_nonnegative(retcode) == retcode >= 0

\* line 112
succeeded(retcode) == retcode = 0

\* msg (line 131)
failure_msg(retcode, stderr) ==
    <<"n","m","c","l","i"," ","r","e","t","u","r","n"," ">> \o str_int(retcode) \o <<" ","c","o","d","e","."," ","S","T","D","E","R","R","=","'">> \o stderr \o <<"'">>

\* _nmcli after _shell returned (lines 111-132): data, or the exception
parse(retcode, stdout, stderr, l_fields, l_multiline) ==
    IF succeeded(retcode)
    THEN IF l_multiline
         THEN LET m == multi_row(split(stdout, "\n"), EmptyRow)
              IN  IF m.exc.err # "" THEN [exc |-> m.exc, data |-> <<>>]
                  ELSE [exc |-> NoError, data |-> <<m.row>>]
         ELSE [exc |-> NoError,
               data |-> single_rows(split(stdout, "\n"), l_fields)]
    ELSE [exc |-> Raise("Exception", "_nmcli", failure_msg(retcode, stderr)),
          data |-> <<>>]

---------------------------------------------------------------------------
(* The callers' inputs and the external tool's answers that are explored. *)

\* all sequences over S of length at most n
SeqsUpTo(S, n) == UNION {[1..k -> S] : k \in 0..n}

\* positional tokens
PosTokens ==
    {PyStr(<<"i","d">>), PyStr(<<"I","D">>), PyStr(<<"a","s","d","a","s","d">>), PyBool(TRUE), None}

\* the positional parameter args: absent (None), one token, or a list
ArgInputs == PosTokens \cup {PyList(xs) : xs \in SeqsUpTo(PosTokens, MaxArgs)}

KwNames == { <<"i","d">>, <<"I","D">>, <<"f","o","o","d">> }

KwValues == {PyStr(<<"E","T","H","0">>), PyInt(8302)}

\* keyword arguments: distinct names, in the dict's iteration order
KwInputs ==
    {kw \in SeqsUpTo([name : KwNames, value : KwValues], MaxKw) :
        \A i, j \in DOMAIN kw : i # j => kw[i].name # kw[j].name}

\* direct calls of _nmcli
QueryObjects == { <<"n","m">>, <<"c","o","n">>, <<"d","e","v">>, <<"f","o","o">> }

QueryCommands ==
    {None, PyStr(<<"s","t","a","t","u","s">>), PyStr(<<"l","i","s","t">>), PyStr(<<"l","i","s","t"," ","i","d">>),
     PyStr(<<"u","p"," ","i","d"," ","e","t","h","0">>)}

QueryFields == {None, PyList(<<PyStr(<<"i","d">>)>>)}

\* lines the external tool may print
Lines ==
    { <<>>, <<"a","b">>, <<"a",":","b">>, <<"a",":","b",":","c">>, <<"b",":",":","a">>, <<"a",":","b",":","c",":","d">>, <<"a",":","b",":","c",":","d",":","e",":","f">>,
      <<"s",".","p",":","a">>, <<"t",".","p",":","b">>, <<"s",".","q",":","a",":","b">>, <<"a",".","b",".","c",":","d">> }

Retcodes == {0, 1}

Stderrs == { <<>>, <<"E">> }

\* standard outputs of at most MaxLines lines
Stdouts == {join(<<"\n">>, ls) : ls \in SeqsUpTo(Lines, MaxLines)}

\* standard outputs answered to the action calls
ActionStdouts == { <<>>, <<"a",":","b",":","c",":","d","\n">> }

---------------------------------------------------------------------------
(* The state machine. *)

NoCall ==
    [kind |-> "none", obj |-> <<>>, command |-> None, possibleargs |-> None,
     args |-> None, kwargs |-> <<>>, fields |-> None, multiline |-> FALSE]

NoArgv == [prog |-> <<>>, fields |-> <<>>, obj |-> <<>>, command |-> <<>>]

NoShell == [called |-> FALSE, retcode |-> 0, stdout |-> <<>>, stderr |-> <<>>]

Outcome(status, exc, data) == [status |-> status, exc |-> exc, data |-> data]

Init ==
    /\ pc = "idle"
    /\ call = NoCall
    /\ cmd = None
    /\ ns = <<>>
    /\ fields = <<>>
    /\ multiline = FALSE
    /\ argv = NoArgv
    /\ invocations = 0
    /\ shell = NoShell
    /\ result = Outcome("none", NoError, <<>>)

\* _nmcli from its entry to its call of _shell (lines 89-109)
enter_nmcli(obj, command, l_fields, l_multiline) ==
    LET r == _build_fields(initial_ns(obj, command, l_fields),
                           l_fields, l_multiline)
    IN  /\ ns' = r.ns
        /\ shell' = NoShell
        /\ IF r.exc.err # ""
           THEN /\ pc' = "done"
                /\ fields' = <<>>
                /\ multiline' = l_multiline
                /\ argv' = NoArgv
                /\ invocations' = 0
                /\ result' = Outcome("raised", r.exc, <<>>)
           ELSE /\ pc' = "shell"
                /\ fields' = r.fields
                /\ multiline' = r.multiline
                /\ argv' = build_args(obj, command, r.fields)
                /\ invocations' = 1
                /\ result' = Outcome("running", NoError, <<>>)

\* A caller calls <obj>.<command>(args, **kwargs): run_action (lines 176-203)
RunAction(obj, entry, args, kwargs) ==
    /\ pc = "idle"
    /\ call' = [kind |-> "action", obj |-> obj, command |-> PyStr(entry.command),
                possibleargs |-> entry.possibleargs, args |-> args,
                kwargs |-> kwargs, fields |-> None, multiline |-> FALSE]
    /\ LET r == run_action(entry.command, entry.possibleargs, args, kwargs)
       IN  /\ cmd' = r.cmd
           /\ IF r.exc.err # ""
              THEN /\ pc' = "done"
                   /\ ns' = <<>>
                   /\ fields' = <<>>
                   /\ multiline' = FALSE
                   /\ argv' = NoArgv
                   /\ invocations' = 0
                   /\ shell' = NoShell
                   /\ result' = Outcome("raised", r.exc, <<>>)
              ELSE enter_nmcli(obj, r.cmd, None, FALSE)

\* A caller calls _nmcli(obj, command, fields, multiline) itself
Nmcli(obj, command, l_fields, l_multiline) ==
    /\ pc = "idle"
    /\ call' = [kind |-> "nmcli", obj |-> obj, command |-> command,
                possibleargs |-> None, args |-> None, kwargs |-> <<>>,
                fields |-> l_fields, multiline |-> l_multiline]
    /\ cmd' = command
    /\ enter_nmcli(obj, command, l_fields, l_multiline)

\* _shell returns (line 109) and _nmcli runs to its end (lines 111-132)
ShellReturn(retcode, stdout, stderr) ==
    /\ pc = "shell"
    /\ pc' = "done"
    /\ shell' = [called |-> TRUE, retcode |-> retcode, stdout |-> stdout,
                 stderr |-> stderr]
    /\ LET r == parse(retcode, stdout, stderr, fields, multiline)
       IN  result' = IF r.exc.err # "" THEN Outcome("raised", r.exc, <<>>)
                     ELSE Outcome("returned", NoError, r.data)
    /\ UNCHANGED <<call, cmd, ns, fields, multiline, argv, invocations>>

\* The call returns or raises to its caller.  Nothing of a call outlives it:
\* the module keeps no state besides its two read-only tables.
Return ==
    /\ pc = "done"
    /\ pc' = "idle"
    /\ call' = NoCall
    /\ cmd' = None
    /\ ns' = <<>>
    /\ fields' = <<>>
    /\ multiline' = FALSE
    /\ argv' = NoArgv
    /\ invocations' = 0
    /\ shell' = NoShell
    /\ result' = Outcome("none", NoError, <<>>)

\* Callers that use the action objects nm, con and dev
Next ==
    \/ /\ pc = "idle"
       /\ \E obj \in DOMAIN Objects : \E i \in DOMAIN Objects[obj] :
             \E args \in ArgInputs : \E kwargs \in KwInputs :
                RunAction(obj, Objects[obj][i], args, kwargs)
    \/ /\ pc = "shell"
       /\ \E retcode \in Retcodes : \E stdout \in ActionStdouts :
             \E stderr \in Stderrs : ShellReturn(retcode, stdout, stderr)
    \/ Return

Spec == Init /\ [][Next]_vars

\* Callers that call the query engine _nmcli themselves
NextQuery ==
    \/ /\ pc = "idle"
       /\ \E obj \in QueryObjects : \E command \in QueryCommands :
             \E l_fields \in QueryFields : \E l_multiline \in BOOLEAN :
                Nmcli(obj, command, l_fields, l_multiline)
    \/ /\ pc = "shell"
       /\ \E retcode \in Retcodes : \E stdout \in Stdouts :
             \E stderr \in Stderrs : ShellReturn(retcode, stdout, stderr)
    \/ Return

SpecQuery == Init /\ [][NextQuery]_vars

---------------------------------------------------------------------------
(* What the properties below are stated with: the expected normal forms of *)
(* the explored tokens, written out, and text cut at the positions of a    *)
(* separator.                                                              *)

\* the normal form of each explored token: lower-case text for a str,
\* "true"/"false" for a bool, the decimal digits for an int, None for None
Normalized(v) ==
    CASE v = PyStr(<<"I","D">>) -> PyStr(<<"i","d">>)
      [] v = PyStr(<<"E","T","H","0">>) -> PyStr(<<"e","t","h","0">>)
      [] v = PyBool(TRUE) -> PyStr(<<"t","r","u","e">>)
      [] v = PyBool(FALSE) -> PyStr(<<"f","a","l","s","e">>)
      [] v = PyInt(8302) -> PyStr(<<"8","3","0","2">>)
      [] OTHER -> v

\* the allowed-argument set of an action, normalized; the action that
\* declares None accepts None alone
AllowedTokens(possibleargs) ==
    IF possibleargs.t = "list"
    THEN {Normalized(x) : x \in Range(possibleargs.items)}
    ELSE {None}

\* the positional tokens of a call
PositionalTokens(c) ==
    IF c.args.t = "none" THEN <<>>
    ELSE IF c.args.t = "list" THEN c.args.items
    ELSE <<c.args>>

\* the positions of sep in chars
Cuts(chars, sep) == {i \in DOMAIN chars : chars[i] = sep}

\* the k-th position of sep in chars
Cut(chars, sep, k) ==
    CHOOSE i \in Cuts(chars, sep) :
        Cardinality({j \in Cuts(chars, sep) : j < i}) = k - 1

\* chars cut at every sep
Pieces(chars, sep) ==
    LET n == Cardinality(Cuts(chars, sep))
    IN  [k \in 1..(n + 1) |->
            SubSeq(chars,
                   IF k = 1 THEN 1 ELSE Cut(chars, sep, k - 1) + 1,
                   IF k = n + 1 THEN Len(chars) ELSE Cut(chars, sep, k) - 1)]

\* the position of field name k in the field list fs
IndexOf(fs, k) == CHOOSE i \in DOMAIN fs : fs[i] = k

\* the call has entered the external tool
Invoked == pc \in {"shell", "done"} /\ invocations = 1

\* the call got past the validation of its arguments
Validated ==
    /\ pc \in {"shell", "done"}
    /\ call.kind = "action"
    /\ ~(result.status = "raised" /\ result.exc.where = "verify_arg")

---------------------------------------------------------------------------
\* the call carries a positional token or a keyword name whose normal form
\* is outside the allowed-argument set of its action
C1_HasDisallowedToken ==
    /\ call.kind = "action"
    /\ \/ \E i \in DOMAIN PositionalTokens(call) :
             Normalized(PositionalTokens(call)[i])
                \notin AllowedTokens(call.possibleargs)
       \/ \E i \in DOMAIN call.kwargs :
             Normalized(PyStr(call.kwargs[i].name))
                \notin AllowedTokens(call.possibleargs)

\* C1: a call of a registered action with a positional token or a keyword
\* name whose normal form is not in the action's allowed-argument set raises
\* from the validation of its arguments, and the command invoker is called
\* zero times during that call.
\* (The exception is the Exception of line 168, or, for an action declared
\* with possibleargs None, the TypeError of the membership test of line 167.)
C1_RejectedBeforeInvocation ==
    (pc # "idle" /\ C1_HasDisallowedToken) =>
        /\ pc = "done"
        /\ result.status = "raised"
        /\ result.exc.where = "verify_arg"
        /\ result.exc.err \in {"Exception", "TypeError"}
        /\ cmd = None
        /\ invocations = 0
        /\ ~shell.called

\* nm.enable("asdasd") has raised
C1_Witness ==
    /\ pc = "done"
    /\ call.kind = "action"
    /\ call.obj = <<"n","m">>
    /\ call.command = PyStr(<<"e","n","a","b","l","e">>)
    /\ call.args = PyStr(<<"a","s","d","a","s","d">>)
    /\ call.kwargs = <<>>
    /\ result.status = "raised"
    /\ result.exc.err = "Exception"
    /\ invocations = 0

RECURSIVE KeywordText(_)
\* " <name> <normalized value>" for each keyword, in iteration order
KeywordText(kw) ==
    IF kw = <<>> THEN <<>>
    ELSE <<" ">> \o kw[1].name \o <<" ">> \o Normalized(kw[1].value).s
         \o KeywordText(Tail(kw))

\* the call has no positional argument, and keyword arguments (if any)
\* whose names are in the allowed-argument set of its action
C2_KeywordsOnly ==
    /\ call.kind = "action"
    /\ PositionalTokens(call) = <<>>
    /\ \A i \in DOMAIN call.kwargs :
          PyStr(call.kwargs[i].name) \in AllowedTokens(call.possibleargs)

ExpectedRow(line, fs) ==
    [k \in Range(fs) |-> Pieces(line, ":")[IndexOf(fs, k)]]

\* the lines of text with exactly len(fields) columns, in line order
MatchingLines(text, fs) ==
    SelectSeq(Pieces(text, "\n"),
              LAMBDA l : Cardinality(Cuts(l, ":")) + 1 = Len(fs))

\* C3: in single-line mode a query that exits with code 0 returns, in line
\* order, exactly one record for each line of stdout that splits on ':'
\* into len(fields) columns, with exactly the field set's keys mapped
\* positionally to the columns; every other line (blank lines included)
\* adds no record and raises nothing.
C3_SingleLineParse ==
    (pc = "done" /\ shell.called /\ shell.retcode = 0 /\ ~multiline) =>
        /\ result.status = "returned"
        /\ Len(result.data) = Len(MatchingLines(shell.stdout, fields))
        /\ \A i \in DOMAIN result.data :
              /\ DOMAIN result.data[i] = Range(fields)
              /\ result.data[i]
                    = ExpectedRow(MatchingLines(shell.stdout, fields)[i], fields)
        /\ \A i \in DOMAIN Pieces(shell.stdout, "\n") :
              Pieces(shell.stdout, "\n")[i] = <<>>
                 => Pieces(shell.stdout, "\n")[i]
                       \notin Range(MatchingLines(shell.stdout, fields))

\* `dev` fields: "a:b\nb::a" has returned the one record of its second line
C3_Witness ==
    /\ pc = "done"
    /\ ~multiline
    /\ fields = <<"DEVICE", "TYPE", "STATE">>
    /\ shell.called
    /\ shell.retcode = 0
    /\ shell.stdout = <<"a",":","b","\n","b",":",":","a">>
    /\ result.status = "returned"
    /\ result.data
          = << ("DEVICE" :> <<"b">>) @@ ("TYPE" :> <<>>) @@ ("STATE" :> <<"a">>) >>

\* the lines "section.property:value" of text: a ':' and, before the first
\* ':', a '.'
IsPropertyLine(line) ==
    /\ Cuts(line, ":") # {}
    /\ Cuts(Pieces(line, ":")[1], ".") # {}

\* the property such a line names: what follows the '.' of its key
PropertyOf(line) ==
    LET key == Pieces(line, ":")[1]
    IN  SubSeq(key, Cut(key, ".", 1) + 1, Len(key))

\* the value of such a line: what follows its first ':'
ValueOf(line) == SubSeq(line, Cut(line, ":", 1) + 1, Len(line))

\* the one record the multi-line parse owes to text
ExpectedMultiRow(text) ==
    LET ls == Pieces(text, "\n")
        named == {i \in DOMAIN ls : IsPropertyLine(ls[i])}
    IN  [p \in {PropertyOf(ls[i]) : i \in named} |->
            ValueOf(ls[CHOOSE i \in named :
                          /\ PropertyOf(ls[i]) = p
                          /\ \A j \in named :
                                PropertyOf(ls[j]) = p => j <= i])]

\* C4: in multi-line mode a query that exits with code 0 returns exactly
\* one record, which maps each property to the value of the last line
\* "section.property:value" naming it; lines without a colon, or whose key
\* lacks a '.', are skipped without error.
C4_MultiLineParse ==
    (pc = "done" /\ shell.called /\ shell.retcode = 0 /\ multiline) =>
        /\ result.status = "returned"
        /\ Len(result.data) = 1
        /\ result.data[1] = ExpectedMultiRow(shell.stdout)

\* C5: when field resolution ends at a registered key, it returns that
\* key's field set and that key's multi-line flag, whatever flag the caller
\* passed: true for `con list id`, false for the four other keys.
C5_RegisteredFlag ==
    (Invoked /\ call.kind = "nmcli") =>
        LET key == join(<<" ">>, [i \in DOMAIN ns |-> ns[i].s])
        IN  /\ key \in DOMAIN NMCLI_FIELDS
            /\ fields = NMCLI_FIELDS[key]
            /\ multiline = (key = <<"c","o","n"," ","l","i","s","t"," ","i","d">>)

\* the text of the explored exit codes
ExitCodeText(retcode) == IF retcode = 1 THEN <<"1">> ELSE <<"0">>

\* C6: a query whose invocation exits with a non-zero code raises, its
\* message holding the exit code and the captured stderr, returns no
\* record, and has entered the external tool exactly once; a query returns
\* records only when its one invocation exited with code 0.
C6_ProcessFailure ==
    /\ (pc = "done" /\ shell.called /\ shell.retcode # 0) =>
          /\ result.status = "raised"
          /\ result.exc.err = "Exception"
          /\ result.exc.detail
                = <<"n","m","c","l","i"," ","r","e","t","u","r","n"," ">> \o ExitCodeText(shell.retcode)
                  \o <<" ","c","o","d","e","."," ","S","T","D","E","R","R","=","'">> \o shell.stderr \o <<"'">>
          /\ result.data = <<>>
          /\ invocations = 1
    /\ result.status = "returned" =>
          /\ shell.called
          /\ shell.retcode = 0
          /\ invocations = 1

\* exit code 1 with a parseable stdout and stderr "E" has raised
C6_Witness ==
    /\ pc = "done"
    /\ call.kind = "nmcli"
    /\ fields = <<"DEVICE", "TYPE", "STATE">>
    /\ shell.called
    /\ shell.retcode = 1
    /\ shell.stdout = <<"a",":","b",":","c">>
    /\ shell.stderr = <<"E">>
    /\ result.status = "raised"
    /\ invocations = 1

\* the path of a direct query: the tokens ns starts with
PathTokens(c) ==
    <<c.obj, c.command.s>>
        \o [i \in DOMAIN c.fields.items |-> c.fields.items[i].s]

\* no prefix of the query's path, down to its object, is a registered key
C7_Unregistered ==
    /\ call.kind = "nmcli"
    /\ call.command.t = "str"
    /\ \A k \in 1..Len(PathTokens(call)) :
          join(<<" ">>, SubSeq(PathTokens(call), 1, k)) \notin DOMAIN NMCLI_FIELDS

\* C7: a query none of whose path prefixes is a registered key drops its
\* tokens one at a time and then raises from field resolution, with no
\* field set in place of the missing one, and never calls the invoker.
C7_UnresolvedFieldsFail ==
    (pc # "idle" /\ C7_Unregistered) =>
        /\ pc = "done"
        /\ ns = <<>>
        /\ result.status = "raised"
        /\ result.exc.err = "IndexError"
        /\ result.exc.where = "_build_fields"
        /\ fields = <<>>
        /\ invocations = 0
        /\ ~shell.called

\* _nmcli("foo", "list id", ["id"]) has raised
C7_Witness ==
    /\ pc = "done"
    /\ call.kind = "nmcli"
    /\ call.obj = <<"f","o","o">>
    /\ call.command = PyStr(<<"l","i","s","t"," ","i","d">>)
    /\ call.fields = PyList(<<PyStr(<<"i","d">>)>>)
    /\ result.status = "raised"
    /\ result.exc.err = "IndexError"
    /\ invocations = 0

\* C8: a call with a positional token and a keyword argument of the same
\* name serializes that option once, as "<token> <normalized value>":
\* con.up("id", id="ETH0") gives "up id eth0".
C8_SameNameOnce ==
    (/\ Validated
     /\ call.args.t = "str"
     /\ Len(call.kwargs) = 1
     /\ call.kwargs[1].name = Normalized(call.args).s) =>
        cmd = PyStr(call.command.s \o KeywordText(call.kwargs))

\* the keyword is in the command string, followed by its normalized value
SerializedWithValue(kw) ==
    LET words == Pieces(cmd.s, " ")
    IN  \E j \in DOMAIN words :
           /\ j < Len(words)
           /\ words[j] = kw.name
           /\ words[j + 1] = Normalized(kw.value).s

\* C9: keyword names are not normalized: a call passes validation only when
\* every keyword name, as written, is in the normalized allowed set, so
\* con.up(ID="ETH0") is rejected; and every keyword that passes validation
\* is serialized together with its normalized value.
C9_KeywordNamesAsWritten ==
    Validated =>
        \A i \in DOMAIN call.kwargs :
           /\ PyStr(call.kwargs[i].name) \in AllowedTokens(call.possibleargs)
           /\ cmd.t = "str" => SerializedWithValue(call.kwargs[i])

\* the longest registered key that is a prefix, token by space-separated
\* token, of the path
NearestKey(path) ==
    LET words == Pieces(path, " ")
        hits == {k \in DOMAIN words :
                    join(<<" ">>, SubSeq(words, 1, k)) \in DOMAIN NMCLI_FIELDS}
    IN  join(<<" ">>, SubSeq(words, 1,
                          CHOOSE k \in hits : \A h \in hits : h <= k))

\* C10: an accepted action call requests the field set of the nearest
\* registered ancestor of its command path "<object> <command string>":
\* con.status(id=X) the `con status` fields, con.list(id=X) the
\* `con list id` fields.
C10_NearestAncestorFields ==
    (Invoked /\ call.kind = "action") =>
        /\ fields = NMCLI_FIELDS[NearestKey(call.obj \o <<" ">> \o cmd.s)]
        /\ argv.fields
              = join_fields(NMCLI_FIELDS[NearestKey(call.obj \o <<" ">> \o cmd.s)])

====
